---- MODULE Spec2Model ----
(***************************************************************************)
(* A model of menu.py: a directory tree rendered as an interactive menu.   *)
(* Strings are sequences of one-character strings, paths are strings built *)
(* by os.path.join, files are sequences of lines.                          *)
(***************************************************************************)
EXTENDS Integers, Sequences, FiniteSets, TLC

VARIABLES fs, stack, pc, ev, target, script_args, collected, command,
          runs, msg, exitCode, changed, mfile, mres

vars == <<fs, stack, pc, ev, target, script_args, collected, command,
          runs, msg, exitCode, changed, mfile, mres>>

navVars == <<fs, stack, pc, ev, target, script_args, collected, command,
             runs, msg, exitCode, changed>>

metaVars == <<mfile, mres>>

(* ---------------- bounds ---------------- *)

MaxInputLen == 1

MaxArgLen == 1

MaxDepth == 3

MaxLines == 2

(* ---------------- strings ---------------- *)

WhiteSpace == {" ", "\t", "\n"}

RECURSIVE LStrip(_)
LStrip(s) ==
  IF s # <<>> /\ Head(s) \in WhiteSpace THEN LStrip(Tail(s)) ELSE s

RECURSIVE RStrip(_)
RStrip(s) ==
  IF s # <<>> /\ s[Len(s)] \in WhiteSpace
    THEN RStrip(SubSeq(s, 1, Len(s) - 1)) ELSE s

Strip(s) == RStrip(LStrip(s))

StartsWith(s, p) == Len(s) >= Len(p) /\ SubSeq(s, 1, Len(p)) = p

RECURSIVE Replace(_, _)
Replace(s, old) ==
  IF s = <<>> THEN <<>>
  ELSE IF StartsWith(s, old) THEN Replace(SubSeq(s, Len(old) + 1, Len(s)), old)
  ELSE <<Head(s)>> \o Replace(Tail(s), old)

DecimalValue == [c \in {"0", "1", "2", "3"} |-> CASE c = "0" -> 0 [] c = "1" -> 1 [] c = "2" -> 2 [] c = "3" -> 3]

DigitChars == DOMAIN DecimalValue \cup {"^2"}

IsDigit(s) == s # <<>> /\ \A i \in 1..Len(s) : s[i] \in DigitChars

RECURSIVE IntValue(_)
IntValue(s) ==
  IF s = <<>> THEN 0
  ELSE 10 * IntValue(SubSeq(s, 1, Len(s) - 1)) + DecimalValue[s[Len(s)]]

ParseInt(s) ==
  IF \A i \in 1..Len(s) : s[i] \in DOMAIN DecimalValue
    THEN [ok |-> TRUE, val |-> IntValue(s)]
    ELSE [ok |-> FALSE, val |-> 0]

Ord == [c \in {"B", "a", "b", "d"} |-> CASE c = "B" -> 66 [] c = "a" -> 97 [] c = "b" -> 98 [] c = "d" -> 100]

RECURSIVE StrLess(_, _)
StrLess(s, t) ==
  IF t = <<>> THEN FALSE
  ELSE IF s = <<>> THEN TRUE
  ELSE IF Head(s) = Head(t) THEN StrLess(Tail(s), Tail(t))
  ELSE Ord[Head(s)] < Ord[Head(t)]

RECURSIVE Insert(_, _)
Insert(x, s) ==
  IF s = <<>> THEN <<x>>
  ELSE IF StrLess(x, Head(s)) THEN <<x>> \o s
  ELSE <<Head(s)>> \o Insert(x, Tail(s))

RECURSIVE Sorted(_)
Sorted(s) == IF s = <<>> THEN <<>> ELSE Insert(Head(s), Sorted(Tail(s)))

(* ---------------- filesystem ---------------- *)

(* A node is what one path names: kind is "absent", "dir", "file" (regular),
   "socket" (a special file) or "dangling" (a symlink to a missing target);
   x and r are the process's execute and read permission; fmt tells whether
   the kernel can exec the file; content is the file's lines; bad = k > 0
   means decoding fails once k - 1 lines have been yielded. *)
Node(kind, x, r, fmt, content, bad) ==
  [kind |-> kind, x |-> x, r |-> r, fmt |-> fmt, content |-> content, bad |-> bad]

Absent == Node("absent", FALSE, FALSE, FALSE, <<>>, 0)

Dir == Node("dir", TRUE, TRUE, FALSE, <<>>, 0)

Sep == "/"

Join(menu_path, name) == menu_path \o <<Sep>> \o name

RECURSIVE LastSep(_)
LastSep(p) ==
  IF p = <<>> THEN 0
  ELSE IF p[Len(p)] = Sep THEN Len(p)
  ELSE LastSep(SubSeq(p, 1, Len(p) - 1))

Basename(p) == SubSeq(p, LastSep(p) + 1, Len(p))

Dirname(p) == SubSeq(p, 1, LastSep(p) - 1)

Lookup(f, p) == IF p \in DOMAIN f THEN f[p] ELSE Absent

IsDir(f, p) == Lookup(f, p).kind = "dir"

Access(f, p) == Lookup(f, p).kind \in {"dir", "file", "socket"} /\ Lookup(f, p).x

ListDirOK(f, p) == Lookup(f, p).kind = "dir" /\ Lookup(f, p).r

Children(f, p) ==
  {Basename(q) : q \in {q \in DOMAIN f : LastSep(q) > 0 /\ Dirname(q) = p /\ f[q].kind # "absent"}}

(* every order in which os.listdir may return the children *)
ListDir(f, p) ==
  LET S == Children(f, p)
  IN {s \in [1..Cardinality(S) -> S] : \A n \in S : \E i \in DOMAIN s : s[i] = n}

CanOpen(f, p) == Lookup(f, p).kind = "file" /\ Lookup(f, p).r

(* ---------------- metadata reader ---------------- *)

Marker(key) == <<"#", " ">> \o key \o <<":">>

None == [found |-> FALSE, val |-> <<>>]

RECURSIVE ScanMetadata(_, _, _, _)
ScanMetadata(lines, i, bad, marker) ==
  IF i > Len(lines) \/ bad = i THEN None
  ELSE IF StartsWith(Strip(lines[i]), marker)
    THEN [found |-> TRUE, val |-> Strip(Replace(lines[i], marker))]
  ELSE ScanMetadata(lines, i + 1, bad, marker)

get_metadata(f, item_path, key) ==
  IF CanOpen(f, item_path)
    THEN ScanMetadata(f[item_path].content, 1, f[item_path].bad, Marker(key))
    ELSE None

(* get_label without the fallback for an empty label *)
get_label_NoFallback(f, item_path) ==
  LET label == get_metadata(f, item_path, <<"L", "A", "B", "E", "L">>)
  IN IF label.found THEN label.val ELSE Basename(item_path)

get_label(f, item_path) ==
  LET label == get_metadata(f, item_path, <<"L", "A", "B", "E", "L">>)
  IN IF label.found /\ label.val # <<>> THEN label.val ELSE Basename(item_path)

(* needs_sudo with any SUDO marker taken as a yes *)
needs_sudo_AnyValue(f, item_path) ==
  get_metadata(f, item_path, <<"S", "U", "D", "O">>).found

needs_sudo(f, item_path) ==
  LET v == get_metadata(f, item_path, <<"S", "U", "D", "O">>)
  IN v.found /\ v.val = <<"t", "r", "u", "e">>

RECURSIVE SkipWs(_, _)
SkipWs(s, i) == IF i <= Len(s) /\ s[i] \in WhiteSpace THEN SkipWs(s, i + 1) ELSE i

RECURSIVE SkipNonWs(_, _)
SkipNonWs(s, i) == IF i <= Len(s) /\ s[i] \notin WhiteSpace THEN SkipNonWs(s, i + 1) ELSE i

RECURSIVE FindQuote(_, _)
FindQuote(s, i) == IF i <= Len(s) /\ s[i] # "\"" THEN FindQuote(s, i + 1) ELSE i

NoMatch == [ok |-> FALSE, name |-> <<>>, prompt |-> <<>>, default |-> <<>>]

(* the pattern of get_script_args matched at the start of s: the ARG marker,
   optional blanks, a run of non-blanks (name), blanks, a quoted prompt,
   blanks, a quoted default *)
arg_pattern(s) ==
  LET pre == <<"#", " ", "A", "R", "G", ":">>
      n1 == SkipWs(s, Len(pre) + 1)
      n2 == SkipNonWs(s, n1)
      q1 == SkipWs(s, n2)
      q2 == FindQuote(s, q1 + 1)
      q3 == SkipWs(s, q2 + 1)
      q4 == FindQuote(s, q3 + 1)
  IN IF /\ StartsWith(s, pre)
        /\ n2 > n1
        /\ q1 > n2 /\ q1 <= Len(s) /\ s[q1] = "\""
        /\ q2 <= Len(s)
        /\ q3 > q2 + 1 /\ q3 <= Len(s) /\ s[q3] = "\""
        /\ q4 <= Len(s)
       THEN [ok |-> TRUE, name |-> SubSeq(s, n1, n2 - 1),
             prompt |-> SubSeq(s, q1 + 1, q2 - 1),
             default |-> SubSeq(s, q3 + 1, q4 - 1)]
       ELSE NoMatch

RECURSIVE ScanArgs(_, _, _)
ScanArgs(lines, i, bad) ==
  IF i > Len(lines) \/ bad = i THEN <<>>
  ELSE LET m == arg_pattern(Strip(lines[i]))
       IN (IF m.ok THEN <<[name |-> m.name, prompt |-> m.prompt, default |-> m.default]>>
                   ELSE <<>>) \o ScanArgs(lines, i + 1, bad)

(* get_script_args with a repeated name kept once *)
get_script_args_Dedup(f, item_path) ==
  LET all == IF CanOpen(f, item_path)
               THEN ScanArgs(f[item_path].content, 1, f[item_path].bad)
               ELSE <<>>
      keep == {i \in DOMAIN all : \A j \in 1..(i - 1) : all[j].name # all[i].name}
  IN [k \in 1..Cardinality(keep) |->
        all[CHOOSE i \in keep : Cardinality({j \in keep : j < i}) = k - 1]]

get_script_args(f, item_path) ==
  IF CanOpen(f, item_path)
    THEN ScanArgs(f[item_path].content, 1, f[item_path].bad)
    ELSE <<>>

(* the exception open() raises for a path that cannot be read as a file *)
OpenError(f, p) ==
  CASE Lookup(f, p).kind \in {"absent", "dangling"} -> "FileNotFoundError"
    [] Lookup(f, p).kind = "dir" -> "IsADirectoryError"
    [] Lookup(f, p).kind = "socket" -> "OSError"
    [] ~Lookup(f, p).r -> "PermissionError"
    [] OTHER -> "none"

(* metadata_except with only the missing file caught *)
metadata_except_NotFoundOnly(exc) == exc = "FileNotFoundError"

(* except (IOError, UnicodeDecodeError): IOError is OSError, the base of the
   file errors *)
metadata_except(exc) ==
  exc \in {"OSError", "FileNotFoundError", "IsADirectoryError", "PermissionError",
           "UnicodeDecodeError"}

(* the number of lines the scan for a marker asks the file for *)
LinesRead(lines, marker) ==
  LET hits == {i \in DOMAIN lines : StartsWith(Strip(lines[i]), marker)}
  IN IF hits = {} THEN Len(lines) ELSE CHOOSE i \in hits : \A j \in hits : i <= j

(* the exception that leaves a metadata lookup, "none" when it is handled *)
Escaping(f, item_path, asked) ==
  LET exc == IF ~CanOpen(f, item_path) THEN OpenError(f, item_path)
             ELSE IF f[item_path].bad \in 1..asked THEN "UnicodeDecodeError"
             ELSE "none"
  IN IF metadata_except(exc) THEN "none" ELSE exc

get_metadata_raises(f, item_path, key) ==
  Escaping(f, item_path,
           IF CanOpen(f, item_path) THEN LinesRead(f[item_path].content, Marker(key)) ELSE 0)

get_script_args_raises(f, item_path) ==
  Escaping(f, item_path, IF CanOpen(f, item_path) THEN Len(f[item_path].content) ELSE 0)

(* ---------------- menu enumerator ---------------- *)

Visible(f, menu_path, item) ==
  Access(f, Join(menu_path, item)) \/ IsDir(f, Join(menu_path, item))

RECURSIVE Filter(_, _, _)
Filter(f, menu_path, items) ==
  IF items = <<>> THEN <<>>
  ELSE (IF Visible(f, menu_path, Head(items)) THEN <<Head(items)>> ELSE <<>>)
         \o Filter(f, menu_path, Tail(items))

(* get_menu_items without the sort *)
get_menu_items_Unsorted(f, menu_path, listing) == Filter(f, menu_path, listing)

get_menu_items(f, menu_path, listing) == Filter(f, menu_path, Sorted(listing))

(* ---------------- the menu tree of the model ---------------- *)

Root == <<"m">>

NameB == <<"B">>

NameA == <<"a">>

NameAB == <<"a", "b">>

LineLabel == <<"#", " ", "L", "A", "B", "E", "L", ":", "R">>

LineSudo == <<"#", " ", "S", "U", "D", "O", ":", "t", "r", "u", "e">>

LineArgX == <<"#", " ", "A", "R", "G", ":", " ", "x", " ", "\"", "P", "\"", " ", "\"", "5", "\"">>

LineArgY == <<"#", " ", "A", "R", "G", ":", "y", " ", "\"", "Q", "\"", " ", "\"", "\"">>

LineCode == <<"l", "s">>

LineArgXAgain == <<"#", " ", "A", "R", "G", ":", " ", "x", " ", "\"", "Q", "\"", " ", "\"", "6", "\"">>

LineArgBroken == <<"#", " ", "A", "R", "G", ":", " ", "x">>

(* an executable file in a submenu: a repeated argument name, a line that
   names an argument without prompt and default, no LABEL line *)
ScriptDup ==
  Node("file", TRUE, TRUE, TRUE, <<LineSudo, LineArgX, LineArgBroken, LineArgXAgain>>, 0)

ScriptA == Node("file", TRUE, TRUE, TRUE, <<LineLabel, LineSudo, LineArgX, LineArgY>>, 0)

ScriptPlain == Node("file", TRUE, TRUE, TRUE, <<LineCode>>, 0)

ScriptNoFormat == Node("file", TRUE, TRUE, FALSE, <<LineCode>>, 0)

DataFile == Node("file", FALSE, TRUE, FALSE, <<LineCode>>, 0)

Socket == Node("socket", TRUE, TRUE, FALSE, <<>>, 0)

Dangling == Node("dangling", TRUE, TRUE, FALSE, <<>>, 0)

DirUnreadable == Node("dir", TRUE, FALSE, FALSE, <<>>, 0)

RECURSIVE DirPath(_)
DirPath(k) == IF k = 1 THEN Root ELSE Join(DirPath(k - 1), NameB)

Paths ==
  {Root} \cup {Join(DirPath(k), n) : k \in 1..MaxDepth, n \in {NameA, NameAB}}
         \cup {DirPath(k) : k \in 2..MaxDepth}

Tree(root) ==
  [p \in Paths |->
     IF p = Root THEN root
     ELSE IF \E k \in 2..MaxDepth : p = DirPath(k) THEN Dir
     ELSE IF p = Join(Root, NameA) THEN ScriptA
     ELSE IF Basename(p) = NameA THEN ScriptDup
     ELSE DataFile]

(* the paths another process changes while the menu runs, and what it puts there *)
Palette ==
  [p \in {Join(Root, NameAB), Join(Root, NameB)} |->
     IF p = Join(Root, NameAB)
       THEN {DataFile, ScriptPlain, ScriptNoFormat, Socket, Dangling, Absent}
       ELSE {Dir, DirUnreadable, Absent, ScriptPlain}]

(* ---------------- interactive input ---------------- *)

InputChars == {" ", "0", "1", "2", "3", "a", "^2"}

ArgChars == {" ", "7"}

RECURSIVE SeqsUpTo(_, _)
SeqsUpTo(S, n) ==
  IF n = 0 THEN {<<>>}
  ELSE LET R == SeqsUpTo(S, n - 1)
       IN R \cup {Append(r, c) : r \in {r \in R : Len(r) = n - 1}, c \in S}

Inputs == SeqsUpTo(InputChars, MaxInputLen)

ArgInputs == SeqsUpTo(ArgChars, MaxArgLen)

AckInputs == {<<>>, <<"a">>}

ChildOutcomes == {0, 1, -11}

(* what the program last reacted to, and where it was when it came *)
Event(kind, line) ==
  [kind |-> kind, line |-> line, status |-> 0, at |-> pc, depth |-> Len(stack),
   listed |-> IF stack = <<>> THEN <<>> ELSE stack[Len(stack)].items]

(* ---------------- control state ---------------- *)

Frame(menu_path, is_top_level) ==
  [path |-> menu_path, top |-> is_top_level, items |-> <<>>]

Cur ==
  [stack |-> stack, pc |-> pc, target |-> target, script_args |-> script_args,
   collected |-> collected, command |-> command, runs |-> runs, msg |-> msg,
   exitCode |-> exitCode]

Assign(n) ==
  /\ stack' = n.stack
  /\ pc' = n.pc
  /\ target' = n.target
  /\ script_args' = n.script_args
  /\ collected' = n.collected
  /\ command' = n.command
  /\ runs' = n.runs
  /\ msg' = n.msg
  /\ exitCode' = n.exitCode

NoLocals(n) ==
  [n EXCEPT !.target = <<>>, !.script_args = <<>>, !.collected = <<>>,
            !.command = <<>>, !.runs = 0]

Top(st) == st[Len(st)]

(* menu_loop_handler with the interrupt treated like a bad number *)
menu_loop_handler_Continue(exc) ==
  IF exc \in {"ValueError", "KeyboardInterrupt"} THEN "continue" ELSE "propagate"

(* the except clauses of menu_loop's try *)
menu_loop_handler(exc) ==
  CASE exc = "ValueError" -> "continue"
    [] exc = "KeyboardInterrupt" -> "exit"
    [] OTHER -> "propagate"

(* run_script_handler without the except clause *)
run_script_handler_None(exc) == "propagate"

(* the except clause around subprocess.run *)
run_script_handler(exc) ==
  IF exc = "KeyboardInterrupt" THEN "notice" ELSE "propagate"

(* an exception raised in the try of frame d travels down the frames; every
   frame below the top one is inside its own try, at the handle_choice call *)
RECURSIVE Unwind(_, _, _)
Unwind(exc, d, m) ==
  IF d = 0 THEN [resume |-> 0, exc |-> exc, msg |-> m]
  ELSE LET h == menu_loop_handler(exc)
       IN CASE h = "continue" -> [resume |-> d, exc |-> "none", msg |-> "number"]
            [] h = "exit" -> Unwind("SystemExit", d - 1, "goodbye")
            [] OTHER -> Unwind(exc, d - 1, m)

Raised(n, exc, m) ==
  LET u == Unwind(exc, Len(n.stack), m)
  IN IF u.resume = 0
       THEN [NoLocals(n) EXCEPT !.pc = "exit", !.stack = <<>>, !.msg = u.msg,
                                !.exitCode = IF u.exc = "SystemExit" THEN 0 ELSE 1]
       ELSE [NoLocals(n) EXCEPT !.pc = "enum", !.msg = u.msg,
                                !.stack = SubSeq(n.stack, 1, u.resume)]

(* ---------------- executor ---------------- *)

Sudo == <<"s", "u", "d", "o">>

EnvFlag == <<"-", "E">>

(* BuildCommand with the arguments put before the path *)
BuildCommand_ArgsFirst(elevate, selected_item_path, collected_args) ==
  (IF elevate THEN <<Sudo, EnvFlag>> ELSE <<>>)
    \o collected_args \o <<selected_item_path>>

BuildCommand(elevate, selected_item_path, collected_args) ==
  (IF elevate THEN <<Sudo, EnvFlag>> ELSE <<>>)
    \o <<selected_item_path>> \o collected_args

(* subprocess.run starts the child unless the exec fails with OSError; with
   the prefix the child is sudo itself *)
Starts(f, cmd) ==
  \/ cmd[1] = Sudo
  \/ Lookup(f, cmd[1]).kind = "file" /\ Lookup(f, cmd[1]).x /\ Lookup(f, cmd[1]).fmt

Launched(n, f) ==
  LET cmd == BuildCommand(needs_sudo(f, n.target), n.target, n.collected)
      m == [n EXCEPT !.command = cmd, !.runs = n.runs + 1]
  IN IF Starts(f, cmd) THEN [m EXCEPT !.pc = "run", !.msg = "none"]
     ELSE IF run_script_handler("OSError") = "notice"
       THEN [m EXCEPT !.pc = "ack", !.msg = "interrupted"]
     ELSE Raised(m, "OSError", "traceback")

(* Recorded with the input trimmed first *)
Recorded_Trimmed(user_input, default) ==
  IF Strip(user_input) # <<>> THEN Strip(user_input) ELSE default

Recorded(user_input, default) == IF user_input # <<>> THEN user_input ELSE default

run_script(n, f, selected_item_path) ==
  LET args == get_script_args(f, selected_item_path)
      m == [n EXCEPT !.target = selected_item_path, !.script_args = args,
                     !.collected = <<>>]
  IN IF args # <<>> THEN [m EXCEPT !.pc = "arg", !.msg = "none"] ELSE Launched(m, f)

(* ---------------- navigator ---------------- *)

SelectedName(choice, menu_items) == menu_items[choice]

(* handle_choice indexing a list enumerated again at dispatch *)
handle_choice_Fresh(f, choice, menu_items, menu_path) ==
  LET items == IF ListDirOK(f, menu_path)
                 THEN get_menu_items(f, menu_path, CHOOSE l \in ListDir(f, menu_path) : TRUE)
                 ELSE menu_items
  IN IF 1 <= choice /\ choice <= Len(items)
       THEN LET p == Join(menu_path, SelectedName(choice, items))
            IN IF IsDir(f, p) THEN [act |-> "menu_loop", path |-> p]
                              ELSE [act |-> "run_script", path |-> p]
       ELSE [act |-> "invalid", path |-> <<>>]

handle_choice(f, choice, menu_items, menu_path) ==
  IF 1 <= choice /\ choice <= Len(menu_items)
    THEN LET p == Join(menu_path, SelectedName(choice, menu_items))
         IN IF IsDir(f, p) THEN [act |-> "menu_loop", path |-> p]
                           ELSE [act |-> "run_script", path |-> p]
    ELSE [act |-> "invalid", path |-> <<>>]

(* ReadSelection with break in place of continue for non-numeric input *)
ReadSelection_Breaks(line) ==
  LET choice_str == Strip(line)
  IN IF choice_str = <<>> \/ ~IsDigit(choice_str) THEN [act |-> "back", choice |-> 0]
     ELSE IF ~ParseInt(choice_str).ok THEN [act |-> "ValueError", choice |-> 0]
     ELSE IF ParseInt(choice_str).val = 0 THEN [act |-> "back", choice |-> 0]
     ELSE [act |-> "choice", choice |-> ParseInt(choice_str).val]

ReadSelection(line) ==
  LET choice_str == Strip(line)
  IN IF choice_str = <<>> THEN [act |-> "back", choice |-> 0]
     ELSE IF ~IsDigit(choice_str) THEN [act |-> "number", choice |-> 0]
     ELSE IF ~ParseInt(choice_str).ok THEN [act |-> "ValueError", choice |-> 0]
     ELSE IF ParseInt(choice_str).val = 0 THEN [act |-> "back", choice |-> 0]
     ELSE [act |-> "choice", choice |-> ParseInt(choice_str).val]

(* Back with the exit taken at every level *)
Back_ExitsAnywhere(n) == Raised(n, "SystemExit", "goodbye")

Back(n) ==
  IF Top(n.stack).top
    THEN Raised(n, "SystemExit", "goodbye")
    ELSE [n EXCEPT !.stack = SubSeq(n.stack, 1, Len(n.stack) - 1),
                   !.pc = "enum", !.msg = "none"]

Selected(n, f, line) ==
  LET s == ReadSelection(line)
      top == Top(n.stack)
      h == handle_choice(f, s.choice, top.items, top.path)
  IN CASE s.act = "back" -> Back(n)
       [] s.act = "number" -> [n EXCEPT !.pc = "enum", !.msg = "number"]
       [] s.act = "ValueError" -> Raised(n, "ValueError", "traceback")
       [] OTHER ->
            CASE h.act = "invalid" -> [n EXCEPT !.pc = "enum", !.msg = "invalid"]
              [] h.act = "menu_loop" ->
                   [n EXCEPT !.stack = Append(n.stack, Frame(h.path, FALSE)),
                             !.pc = "enum", !.msg = "none"]
              [] OTHER -> run_script(n, f, h.path)

(* ---------------- actions of the menu program ---------------- *)

MetaIdle == [done |-> FALSE, sudo |-> FALSE]

Init ==
  /\ fs \in {Tree(root) : root \in {Dir, Absent, DataFile}}
  /\ stack = <<>>
  /\ pc = "start"
  /\ ev = [kind |-> "none", line |-> <<>>, status |-> 0, at |-> "start", depth |-> 0,
          listed |-> <<>>]
  /\ target = <<>>
  /\ script_args = <<>>
  /\ collected = <<>>
  /\ command = <<>>
  /\ runs = 0
  /\ msg = "none"
  /\ exitCode = 0
  /\ changed = FALSE
  /\ mfile = Absent
  /\ mres = MetaIdle

(* StartOK with a test that the path exists in place of the directory test *)
StartOK_Exists(f, start_path) == Lookup(f, start_path).kind # "absent"

StartOK(f, start_path) == IsDir(f, start_path)

(* main, from the directory test on *)
Main ==
  /\ pc = "start"
  /\ ev' = Event("main", <<>>)
  /\ IF StartOK(fs, Root)
       THEN Assign([Cur EXCEPT !.stack = <<Frame(Root, TRUE)>>, !.pc = "enum",
                               !.msg = "banner"])
       ELSE Assign([Cur EXCEPT !.pc = "exit", !.exitCode = 1, !.msg = "notfound"])
  /\ UNCHANGED <<fs, changed, mfile, mres>>

(* Enumerated with the list of the previous iteration kept when there is one *)
Enumerated_Cached(f, frame, listing) ==
  IF frame.items # <<>> THEN frame.items ELSE get_menu_items(f, frame.path, listing)

Enumerated(f, frame, listing) == get_menu_items(f, frame.path, listing)

(* the head of the loop: get_menu_items, print_menu, then the prompt *)
Render ==
  /\ pc = "enum"
  /\ ev' = Event("render", <<>>)
  /\ changed' = FALSE
  /\ IF ListDirOK(fs, Top(stack).path)
       THEN \E listing \in ListDir(fs, Top(stack).path) :
              Assign([Cur EXCEPT
                        !.stack[Len(stack)].items =
                            Enumerated(fs, Top(stack), listing),
                        !.pc = "prompt", !.msg = "menu"])
       ELSE Assign(Raised(Cur, "OSError", "traceback"))
  /\ UNCHANGED <<fs, mfile, mres>>

(* one line read at the selection prompt, up to the next blocking point *)
ReadChoice ==
  /\ pc = "prompt"
  /\ \E line \in Inputs :
       /\ ev' = Event("line", line)
       /\ Assign(Selected(Cur, fs, line))
  /\ UNCHANGED <<fs, changed, mfile, mres>>

(* AllCollected with the launch after the first value *)
AllCollected_First(n) == Len(n.collected) >= 1

AllCollected(n) == Len(n.collected) >= Len(n.script_args)

(* one line read at an argument prompt *)
ReadArg ==
  /\ pc = "arg"
  /\ \E user_input \in ArgInputs :
       LET default == script_args[Len(collected) + 1].default
           n == [Cur EXCEPT !.collected = Append(collected, Recorded(user_input, default))]
       IN /\ ev' = Event("line", user_input)
          /\ IF AllCollected(n)
               THEN Assign(Launched(n, fs))
               ELSE Assign(n)
  /\ UNCHANGED <<fs, changed, mfile, mres>>

(* Returned with a failed child sent straight back to the menu *)
Returned_ChecksStatus(n, status) ==
  IF status = 0
    THEN [n EXCEPT !.pc = "ack", !.script_args = <<>>, !.collected = <<>>,
                   !.command = <<>>]
    ELSE [NoLocals(n) EXCEPT !.pc = "enum", !.msg = "invalid"]

(* subprocess.run returns; its result is dropped *)
Returned(n, status) ==
  [n EXCEPT !.pc = "ack", !.script_args = <<>>, !.collected = <<>>, !.command = <<>>]

(* the child ends, whatever its status; run_script returns and handle_choice
   blocks on the acknowledgment *)
ChildExit ==
  /\ pc = "run"
  /\ \E status \in ChildOutcomes :
       /\ ev' = [Event("child", <<>>) EXCEPT !.status = status]
       /\ Assign(Returned(Cur, status))
  /\ UNCHANGED <<fs, changed, mfile, mres>>

(* the interrupt signal while subprocess.run waits *)
ChildInterrupt ==
  /\ pc = "run"
  /\ ev' = Event("interrupt", <<>>)
  /\ IF run_script_handler("KeyboardInterrupt") = "notice"
       THEN Assign([Cur EXCEPT !.pc = "ack", !.msg = "interrupted",
                               !.script_args = <<>>, !.collected = <<>>,
                               !.command = <<>>])
       ELSE Assign(Raised(Cur, "KeyboardInterrupt", "traceback"))
  /\ UNCHANGED <<fs, changed, mfile, mres>>

(* the line read by the acknowledgment prompt *)
ReadAck ==
  /\ pc = "ack"
  /\ \E line \in AckInputs : ev' = Event("line", line)
  /\ Assign([NoLocals(Cur) EXCEPT !.pc = "enum", !.msg = "none"])
  /\ UNCHANGED <<fs, changed, mfile, mres>>

Blocked == pc \in {"prompt", "arg", "ack"}

(* Interrupted with the prompts of run_script and handle_choice inside the try
   of run_script *)
Interrupted_CaughtInRunScript(n) ==
  IF n.pc = "prompt" THEN Raised(n, "KeyboardInterrupt", "traceback")
  ELSE IF n.pc = "arg" THEN Launched(n, fs)
  ELSE [NoLocals(n) EXCEPT !.pc = "enum", !.msg = "interrupted"]

(* input() raises KeyboardInterrupt: the prompts of run_script and of
   handle_choice sit outside the try of run_script, inside the try of every
   menu_loop frame *)
Interrupted(n) == Raised(n, "KeyboardInterrupt", "traceback")

(* the interrupt signal while input() blocks *)
Interrupt ==
  /\ Blocked
  /\ ev' = Event("interrupt", <<>>)
  /\ Assign(Interrupted(Cur))
  /\ UNCHANGED <<fs, changed, mfile, mres>>

(* end of input while input() blocks *)
EndOfInput ==
  /\ Blocked
  /\ ev' = Event("eof", <<>>)
  /\ Assign(Raised(Cur, "EOFError", "traceback"))
  /\ UNCHANGED <<fs, changed, mfile, mres>>

(* another process changes the tree *)
Mutate ==
  /\ pc \in {"enum", "prompt", "arg", "run", "ack"}
  /\ \E p \in DOMAIN Palette : \E node \in Palette[p] :
       /\ node # fs[p]
       /\ fs' = [fs EXCEPT ![p] = node]
  /\ ev' = Event("fs", <<>>)
  /\ changed' = TRUE
  /\ UNCHANGED <<stack, pc, target, script_args, collected, command, runs, msg,
                 exitCode, mfile, mres>>

Next ==
  \/ Main
  \/ Render
  \/ ReadChoice
  \/ ReadArg
  \/ ChildExit
  \/ ChildInterrupt
  \/ ReadAck
  \/ Interrupt
  \/ EndOfInput
  \/ Mutate

Spec == Init /\ [][Next]_vars

(* ---------------- the metadata reader on arbitrary files ---------------- *)

MetaPath == <<"f">>

MetaLines ==
  { LineSudo,
    <<"#", " ", "S", "U", "D", "O", ":", " ", "t", "r", "u", "e", " ">>,
    <<" ", "#", " ", "S", "U", "D", "O", ":", "t", "r", "u", "e">>,
    <<"#", " ", "S", "U", "D", "O", ":", "T", "r", "u", "e">>,
    <<"#", " ", "S", "U", "D", "O", ":", "f", "a", "l", "s", "e">>,
    <<"x", "#", " ", "S", "U", "D", "O", ":", "t", "r", "u", "e">>,
    LineCode }

MetaContents == SeqsUpTo(MetaLines, MaxLines)

MetaFs == [p \in {MetaPath} |-> mfile]

InitMeta ==
  /\ mfile \in {Node("file", TRUE, TRUE, TRUE, c, 0) : c \in MetaContents}
  /\ mres = MetaIdle
  /\ fs = Tree(Dir)
  /\ stack = <<>>
  /\ pc = "meta"
  /\ ev = [kind |-> "none", line |-> <<>>, status |-> 0, at |-> "meta", depth |-> 0,
          listed |-> <<>>]
  /\ target = <<>>
  /\ script_args = <<>>
  /\ collected = <<>>
  /\ command = <<>>
  /\ runs = 0
  /\ msg = "none"
  /\ exitCode = 0
  /\ changed = FALSE

CallNeedsSudo ==
  /\ ~mres.done
  /\ mres' = [done |-> TRUE, sudo |-> needs_sudo(MetaFs, MetaPath)]
  /\ UNCHANGED <<mfile>>
  /\ UNCHANGED navVars

NextMeta == CallNeedsSudo

SpecMeta == InitMeta /\ [][NextMeta]_vars

(* ---------------- the metadata reader on files in any state ---------------- *)

LineLabelEmpty == <<"#", " ", "L", "A", "B", "E", "L", ":">>

LineLabelSpaced == <<" ", "#", " ", "L", "A", "B", "E", "L", ":", " ", "Q", " ">>

LineLabelTwice ==
  <<"#", " ", "L", "A", "B", "E", "L", ":", "A", "#", " ", "L", "A", "B", "E", "L", ":", "B">>

FileLines ==
  {LineLabel, LineLabelEmpty, LineLabelSpaced, LineLabelTwice, LineSudo,
   LineArgX, LineArgXAgain, LineArgBroken, LineCode}

FileContents == SeqsUpTo(FileLines, MaxLines)

FileStates ==
  {Node("file", TRUE, TRUE, TRUE, c, b) : c \in FileContents, b \in 0..MaxLines}
    \cup {Absent, Dir, Socket, Dangling,
          Node("file", TRUE, FALSE, TRUE, <<LineLabel, LineSudo, LineArgX>>, 0)}

FileIdle == [op |-> "none", label |-> <<>>, args |-> <<>>, sudo |-> FALSE, exc |-> "none"]

InitFile ==
  /\ mfile \in {n \in FileStates : n.bad <= Len(n.content)}
  /\ mres = FileIdle
  /\ fs = Tree(Dir)
  /\ stack = <<>>
  /\ pc = "meta"
  /\ ev = [kind |-> "none", line |-> <<>>, status |-> 0, at |-> "meta", depth |-> 0,
          listed |-> <<>>]
  /\ target = <<>>
  /\ script_args = <<>>
  /\ collected = <<>>
  /\ command = <<>>
  /\ runs = 0
  /\ msg = "none"
  /\ exitCode = 0
  /\ changed = FALSE

CallGetLabel ==
  /\ mres' = [FileIdle EXCEPT !.op = "get_label",
                              !.label = get_label(MetaFs, MetaPath),
                              !.exc = get_metadata_raises(MetaFs, MetaPath, <<"L", "A", "B", "E", "L">>)]
  /\ UNCHANGED <<mfile>>
  /\ UNCHANGED navVars

CallGetScriptArgs ==
  /\ mres' = [FileIdle EXCEPT !.op = "get_script_args",
                              !.args = get_script_args(MetaFs, MetaPath),
                              !.exc = get_script_args_raises(MetaFs, MetaPath)]
  /\ UNCHANGED <<mfile>>
  /\ UNCHANGED navVars

CallNeedsSudoOnFile ==
  /\ mres' = [FileIdle EXCEPT !.op = "needs_sudo",
                              !.sudo = needs_sudo(MetaFs, MetaPath),
                              !.exc = get_metadata_raises(MetaFs, MetaPath, <<"S", "U", "D", "O">>)]
  /\ UNCHANGED <<mfile>>
  /\ UNCHANGED navVars

NextFile ==
  \/ CallGetLabel
  \/ CallGetScriptArgs
  \/ CallNeedsSudoOnFile

SpecFile == InitFile /\ [][NextFile]_vars

(* ---------------- vocabulary of the claims ---------------- *)

AllZeros(s) == s # <<>> /\ \A i \in 1..Len(s) : s[i] = "0"

EmptyOrZero(line) == line = <<>> \/ AllZeros(Strip(line))

IsNumber(line) ==
  Strip(line) # <<>> /\ \A i \in 1..Len(Strip(line)) : Strip(line)[i] \in {"0", "1", "2", "3"}

Terminated == pc = "exit"

Depth == Len(stack)

(* C1: once menu_loop runs, the program ends only by empty input or 0 at the
   top level or by an interrupt, always with exit code 0; nothing else, no
   launch, child or enumeration outcome, terminates it. *)
C1_OnlyCleanExits ==
  (Terminated /\ ev.kind # "main") =>
     /\ exitCode = 0
     /\ \/ ev.kind = "interrupt"
        \/ ev.kind = "line" /\ ev.at = "prompt" /\ ev.depth = 1
             /\ (Strip(ev.line) = <<>> \/ AllZeros(Strip(ev.line)))

(* C2: the navigator is a stack of menu paths: a directory selection pushes
   one nested frame for the child path; empty input or 0 pops exactly one
   frame at a nested level and re-renders the parent, and at depth 1 prints
   the farewell and exits with status 0; empty input and 0 act alike. *)
C2_Step ==
  /\ (pc = "prompt" /\ ev'.kind = "line" /\ EmptyOrZero(ev'.line)) =>
       IF Depth = 1
         THEN pc' = "exit" /\ exitCode' = 0 /\ msg' = "goodbye"
         ELSE pc' = "enum" /\ stack' = SubSeq(stack, 1, Depth - 1)
  /\ (pc = "prompt" /\ ev'.kind = "line" /\ IsNumber(ev'.line)
        /\ IntValue(Strip(ev'.line)) \in 1..Len(Top(stack).items)
        /\ IsDir(fs, Join(Top(stack).path, Top(stack).items[IntValue(Strip(ev'.line))]))) =>
       /\ pc' = "enum"
       /\ stack' = Append(stack,
            [path |-> Join(Top(stack).path, Top(stack).items[IntValue(Strip(ev'.line))]),
             top |-> FALSE, items |-> <<>>])
  /\ (pc = "prompt") => (Top(stack).top <=> Depth = 1)

C2_StackDiscipline == [][C2_Step]_vars

C2_Witness ==
  /\ pc = "enum" /\ ev.kind = "line" /\ ev.at = "prompt"
  /\ ev.depth = 3 /\ Depth = 2 /\ ev.line = <<"0">>

(* C3: an interrupt at the selection prompt ends the whole program with the
   farewell and exit code 0 at every depth; it never pops a level. *)
C3_InterruptAtPromptExits ==
  (ev.kind = "interrupt" /\ ev.at = "prompt") =>
     (pc = "exit" /\ exitCode = 0 /\ msg = "goodbye")

C3_Witness ==
  ev.kind = "interrupt" /\ ev.at = "prompt" /\ ev.depth = 3 /\ pc = "exit"

(* C4: an interrupt while the child runs is caught in run_script: the notice
   is printed, the program goes on to the acknowledgment and then re-renders
   the level it was at; it does not terminate. *)
C4_Step ==
  /\ (pc = "run" /\ ev'.kind = "interrupt") =>
       (pc' = "ack" /\ msg' = "interrupted" /\ stack' = stack /\ exitCode' = exitCode)
  /\ (pc = "ack" /\ ev'.kind = "line") => (pc' = "enum" /\ stack' = stack)

C4_InterruptInChildCaught == [][C4_Step]_vars

C4_Witness ==
  pc = "ack" /\ ev.kind = "interrupt" /\ ev.at = "run" /\ Depth = 2 /\ msg = "interrupted"

(* what the claims call a user-input error, for a menu of count entries *)
OutOfRange(line, count) == IsNumber(line) /\ IntValue(Strip(line)) > count

NothingHappened ==
  /\ stack' = stack
  /\ pc' = "enum"
  /\ msg' \in {"number", "invalid"}
  /\ runs' = 0 /\ command' = <<>> /\ target' = <<>> /\ collected' = <<>>
  /\ exitCode' = exitCode

SameListAgain ==
  (pc = "enum" /\ msg \in {"number", "invalid"} /\ ~changed /\ ev'.kind = "render") =>
     (pc' = "prompt" /\ Depth = Len(stack') /\ Top(stack').items = Top(stack).items)

(* C5 as stated: non-empty non-numeric input, or a number above the count,
   changes no navigator state, prints an inline error and leads to a
   re-render of the same level with the same list. *)
C5_Step_AsStated ==
  /\ (pc = "prompt" /\ ev'.kind = "line"
        /\ \/ ev'.line # <<>> /\ ~IsNumber(ev'.line)
           \/ OutOfRange(ev'.line, Len(Top(stack).items))) => NothingHappened
  /\ SameListAgain

C5_AsStated == [][C5_Step_AsStated]_vars

(* C5 amended: the same for input that is non-empty after trimming and is
   not a number, or is a number above the count; input made of whitespace
   only is treated as empty input. *)
C5_Step ==
  /\ (pc = "prompt" /\ ev'.kind = "line"
        /\ \/ Strip(ev'.line) # <<>> /\ ~IsNumber(ev'.line)
           \/ OutOfRange(ev'.line, Len(Top(stack).items))) => NothingHappened
  /\ SameListAgain

C5_InputErrorNoChange == [][C5_Step]_vars

C5_Witness ==
  /\ pc = "enum" /\ msg = "invalid" /\ ev.kind = "line" /\ ev.at = "prompt"
  /\ ev.line = <<"3">> /\ Depth = 2 /\ Len(Top(stack).items) = 2

(* code-point order of names, stated without the sort *)
LexBefore(s, t) ==
  \E k \in 1..(Len(t)) :
     /\ k <= Len(s) + 1
     /\ SubSeq(s, 1, k - 1) = SubSeq(t, 1, k - 1)
     /\ k = Len(s) + 1 \/ Ord[s[k]] < Ord[t[k]]

ShownNames(f, menu_path) == {n \in Children(f, menu_path) : Visible(f, menu_path, n)}

Rank(f, menu_path, n) ==
  Cardinality({m \in ShownNames(f, menu_path) : LexBefore(m, n)}) + 1

(* C6: get_menu_items returns the visible children in ascending lexicographic
   order of name, and selecting index i dispatches the i-th name of that
   order when the directory is unchanged since the render. *)
C6_Step ==
  /\ (pc = "enum" /\ pc' = "prompt") =>
       LET items == Top(stack').items
       IN /\ {items[i] : i \in DOMAIN items} = ShownNames(fs, Top(stack).path)
          /\ \A i, j \in DOMAIN items : i < j => LexBefore(items[i], items[j])
  /\ (pc = "prompt" /\ ~changed /\ ev'.kind = "line" /\ IsNumber(ev'.line)
        /\ IntValue(Strip(ev'.line)) \in 1..Len(Top(stack).items)) =>
       LET i == IntValue(Strip(ev'.line))
           dispatched == IF pc' = "enum" THEN Top(stack').path ELSE target'
       IN pc' # "exit" =>
            /\ Dirname(dispatched) = Top(stack).path
            /\ Rank(fs, Top(stack).path, Basename(dispatched)) = i

C6_SortedAndIndexed == [][C6_Step]_vars

C6_Witness ==
  /\ pc = "arg" /\ ev.kind = "line" /\ ev.at = "prompt" /\ ev.line = <<"2">>
  /\ target = Join(Root, NameA) /\ Len(Top(stack).items) = 3

(* C7: a child is listed if and only if it is a directory or a regular file
   the process may execute. *)
C7_ListedIffDirOrExecutableFile ==
  (pc = "prompt" /\ ~changed) =>
     \A n \in Children(fs, Top(stack).path) :
        LET node == Lookup(fs, Join(Top(stack).path, n))
        IN (\E i \in DOMAIN Top(stack).items : Top(stack).items[i] = n)
             <=> (node.kind = "dir" \/ (node.kind = "file" /\ node.x))

SudoMarker == <<"#", " ", "S", "U", "D", "O", ":">>

True4 == <<"t", "r", "u", "e">>

(* C8 as stated: needs_sudo is true if and only if some line, trimmed, is
   exactly the marker followed by true. *)
C8_AsStated ==
  mres.done =>
    (mres.sudo <=>
       \E i \in DOMAIN mfile.content : Strip(mfile.content[i]) = SudoMarker \o True4)

(* C8 amended: needs_sudo is true if and only if the first line whose trimmed
   text starts with the marker leaves exactly true once the marker is removed
   and the rest is trimmed: whitespace around the value is accepted, and the
   SUDO lines after the first one are ignored. *)
C8_FirstMarkerDecides ==
  mres.done =>
    (mres.sudo <=>
       \E i \in DOMAIN mfile.content :
          /\ StartsWith(Strip(mfile.content[i]), SudoMarker)
          /\ \A j \in 1..(i - 1) : ~StartsWith(Strip(mfile.content[j]), SudoMarker)
          /\ Strip(Replace(mfile.content[i], SudoMarker)) = True4)

C8_Witness ==
  /\ mres.done /\ ~mres.sudo /\ Len(mfile.content) = 2
  /\ Strip(mfile.content[1]) = SudoMarker \o <<"f", "a", "l", "s", "e">>
  /\ Strip(mfile.content[2]) = SudoMarker \o True4

JustRecorded == ev.kind = "line" /\ ev.at = "arg" /\ pc \in {"arg", "run"}

(* C9 as stated: the value recorded for a spec is the trimmed input when that
   is non-empty, and the default otherwise. *)
C9_AsStated ==
  JustRecorded =>
    collected[Len(collected)] =
      IF Strip(ev.line) # <<>> THEN Strip(ev.line)
                               ELSE script_args[Len(collected)].default

(* C9 amended: the value recorded is the input line as typed, untrimmed, when
   it is non-empty, and the default otherwise; empty input with default 5
   records 5, input 7 records 7, and whitespace-only input is recorded as
   typed. *)
C9_RecordedVerbatim ==
  JustRecorded =>
    collected[Len(collected)] =
      IF ev.line # <<>> THEN ev.line ELSE script_args[Len(collected)].default

C9_Witness ==
  /\ JustRecorded /\ Len(collected) = 2
  /\ collected[1] = <<"5">> /\ collected[2] = <<" ">>

ElevationAsked(node) ==
  /\ node.kind = "file" /\ node.r
  /\ \E i \in DOMAIN node.content :
       /\ StartsWith(Strip(node.content[i]), SudoMarker)
       /\ \A j \in 1..(i - 1) : ~StartsWith(Strip(node.content[j]), SudoMarker)
       /\ Strip(Replace(node.content[i], SudoMarker)) = True4

JustLaunched == pc = "run" /\ ev.kind = "line"

(* C10: the argv handed to the launcher is sudo -E exactly when the target
   asks for elevation, then the target path, then the collected arguments in
   order, each its own token; a selection launches one command. *)
C10_Argv ==
  JustLaunched =>
    /\ runs = 1
    /\ LET k == IF ElevationAsked(Lookup(fs, target)) THEN 2 ELSE 0
       IN /\ Len(command) = k + 1 + Len(collected)
          /\ k = 2 => (command[1] = <<"s", "u", "d", "o">> /\ command[2] = <<"-", "E">>)
          /\ command[k + 1] = target
          /\ \A i \in DOMAIN collected : command[k + 1 + i] = collected[i]

C10_Witness ==
  /\ JustLaunched /\ target = Join(Root, NameA)
  /\ command = <<Sudo, EnvFlag, Join(Root, NameA), <<"7">>, <<>>>>

LabelMarker == <<"#", " ", "L", "A", "B", "E", "L", ":">>

Unopenable(node) == node.kind # "file" \/ ~node.r

HasMarker(lines, marker, upto) ==
  \E i \in 1..upto : i <= Len(lines) /\ StartsWith(Strip(lines[i]), marker)

MatchingBefore(lines, upto) ==
  {i \in 1..upto : i <= Len(lines) /\ arg_pattern(Strip(lines[i])).ok}

(* C12 as stated: whatever the state of the file (missing, unreadable, a
   directory, undecodable at any position) every lookup returns its default
   without raising. *)
C12_AsStated ==
  (mres.op # "none" /\ (Unopenable(mfile) \/ mfile.bad > 0)) =>
     /\ mres.exc = "none"
     /\ mres.op = "get_label" => mres.label = Basename(MetaPath)
     /\ mres.op = "get_script_args" => mres.args = <<>>
     /\ mres.op = "needs_sudo" => ~mres.sudo

(* C12 amended: no lookup ever raises; a file that cannot be opened, or whose
   decoding fails before a line with the marker sought was read, gives the
   default; when decoding fails further down, the lookup returns what the
   lines read before the failure give (the first marker met, the specs
   matched so far). *)
C12_NeverRaises ==
  mres.op # "none" =>
     /\ mres.exc = "none"
     /\ Unopenable(mfile) =>
          /\ mres.op = "get_label" => mres.label = Basename(MetaPath)
          /\ mres.op = "get_script_args" => mres.args = <<>>
          /\ mres.op = "needs_sudo" => ~mres.sudo
     /\ (~Unopenable(mfile) /\ mfile.bad > 0) =>
          /\ (mres.op = "get_label" /\ ~HasMarker(mfile.content, LabelMarker, mfile.bad - 1))
               => mres.label = Basename(MetaPath)
          /\ mres.op = "get_script_args" =>
               Len(mres.args) = Cardinality(MatchingBefore(mfile.content, mfile.bad - 1))
          /\ (mres.op = "needs_sudo" /\ ~HasMarker(mfile.content, SudoMarker, mfile.bad - 1))
               => ~mres.sudo

C12_Witness ==
  /\ mres.op = "get_label" /\ mfile.kind = "file" /\ mfile.bad = 1
  /\ mfile.content = <<LineLabel>> /\ mres.label = Basename(MetaPath)

Readable(node) == node.kind = "file" /\ node.r /\ node.bad = 0

FirstMarker(lines, marker) ==
  CHOOSE i \in DOMAIN lines :
     /\ StartsWith(Strip(lines[i]), marker)
     /\ \A j \in 1..(i - 1) : ~StartsWith(Strip(lines[j]), marker)

Remainder(line, marker) == Strip(SubSeq(Strip(line), Len(marker) + 1, Len(Strip(line))))

SameLabelAgain == (mres.op = "get_label" /\ mres'.op = "get_label") => mres'.label = mres.label

(* C15 as stated: get_label returns the trimmed remainder of the first LABEL
   marker line, and the base name when and only when no line is a LABEL
   marker; a second call gives the same string. *)
C15_Step_AsStated ==
  /\ (mres'.op = "get_label" /\ Readable(mfile)) =>
       mres'.label =
         IF HasMarker(mfile.content, LabelMarker, Len(mfile.content))
           THEN Remainder(mfile.content[FirstMarker(mfile.content, LabelMarker)], LabelMarker)
           ELSE Basename(MetaPath)
  /\ SameLabelAgain

C15_AsStated == [][C15_Step_AsStated]_vars

(* C15 amended: get_label looks only at the first LABEL marker line; it
   returns that line with every occurrence of the marker removed and the rest
   trimmed when that is non-empty, and the base name when no line is a LABEL
   marker or when that value is empty; a second call on the unmodified file
   gives the same string. *)
C15_Step ==
  /\ (mres'.op = "get_label" /\ Readable(mfile)) =>
       LET has == HasMarker(mfile.content, LabelMarker, Len(mfile.content))
           val == Strip(Replace(mfile.content[FirstMarker(mfile.content, LabelMarker)],
                                LabelMarker))
       IN mres'.label = IF has /\ val # <<>> THEN val ELSE Basename(MetaPath)
  /\ SameLabelAgain

C15_FirstLabelWins == [][C15_Step]_vars

C15_Witness ==
  /\ mres.op = "get_label" /\ Readable(mfile)
  /\ mfile.content = <<LineLabelSpaced, LineLabel>> /\ mres.label = <<"Q">>

(* C11: every argument prompt of a selection is answered before the child
   starts: the child is launched only when one value is recorded for every
   declared spec, and between the launch and the end of the child no line is
   read and no argument prompt is open. *)
C11_Step ==
  /\ (pc # "run" /\ pc' = "run") =>
       /\ runs = 0 /\ runs' = 1
       /\ Len(collected') = Len(script_args')
  /\ pc = "arg" => runs = 0 /\ Len(collected) < Len(script_args)
  /\ pc = "run" => ev'.kind # "line" /\ pc' # "arg" /\ runs' <= 1

C11_PromptsBeforeLaunch == [][C11_Step]_vars

C11_Witness ==
  /\ pc = "run" /\ ev.kind = "line" /\ ev.at = "arg"
  /\ Len(script_args) = 2 /\ Len(collected) = 2 /\ runs = 1

(* C13: when the menu root is missing or is not a directory the program
   prints the error and exits with a non-zero status; no banner is printed,
   nothing is enumerated and no menu is rendered. *)
C13_BadRootIsFatal ==
  (pc # "start" /\ ~IsDir(fs, Root)) =>
     /\ pc = "exit" /\ exitCode # 0 /\ msg = "notfound"
     /\ ev.kind = "main" /\ stack = <<>> /\ runs = 0

C13_Witness ==
  /\ pc = "exit" /\ ev.kind = "main" /\ msg = "notfound" /\ exitCode = 1
  /\ Lookup(fs, Root).kind = "file"

(* C14: whatever the status of the child, its end changes nothing but the
   position: the navigator blocks on one acknowledgment read at the same
   level, that read leads to the next render of the same level, and no render
   happens between the launch and the acknowledgment. *)
C14_Step ==
  /\ (pc = "run" /\ ev'.kind = "child") =>
       /\ pc' = "ack" /\ stack' = stack /\ msg' = msg /\ exitCode' = exitCode
       /\ runs' = runs /\ target' = target
  /\ (pc = "ack" /\ ev'.kind = "line") =>
       /\ pc' = "enum" /\ Len(stack') = Len(stack)
       /\ Top(stack').path = Top(stack).path /\ msg' = "none"
  /\ pc \in {"run", "ack"} => ev'.kind # "render" /\ pc' # "prompt"
  /\ (pc = "run" /\ pc' = "enum") => FALSE

C14_OutcomeIgnored == [][C14_Step]_vars

C14_Witness ==
  /\ pc = "ack" /\ ev.kind = "child" /\ ev.status # 0 /\ Depth = 2
  /\ msg = "none" /\ runs = 1

(* the lines of a file the ARG pattern matches, in file order *)
ArgLineIndexes(node) ==
  IF node.kind = "file" /\ node.r /\ node.bad = 0
    THEN {i \in DOMAIN node.content : arg_pattern(Strip(node.content[i])).ok}
    ELSE {}

NthArgLine(node, k) ==
  CHOOSE i \in ArgLineIndexes(node) :
     Cardinality({j \in ArgLineIndexes(node) : j < i}) = k - 1

(* C16: a selection opens one prompt for each line of the target the ARG
   pattern matches, in file order and with repeated names kept; the k-th
   value recorded answers the k-th spec; the child starts when the values are
   as many as the specs; a target with no such line gets no prompt and an
   empty argument sequence. *)
C16_Step ==
  /\ (pc = "prompt" /\ pc' \in {"arg", "run"}) =>
       LET node == Lookup(fs, target')
           count == Cardinality(ArgLineIndexes(node))
       IN /\ collected' = <<>>
          /\ Len(script_args') = count
          /\ \A k \in 1..count :
               LET m == arg_pattern(Strip(node.content[NthArgLine(node, k)]))
               IN /\ script_args'[k].name = m.name
                  /\ script_args'[k].prompt = m.prompt
                  /\ script_args'[k].default = m.default
          /\ (pc' = "run") = (count = 0)
  /\ (pc = "arg" /\ ev'.kind = "line") =>
       LET k == Len(collected) + 1
       IN /\ script_args' = script_args
          /\ Len(collected') = k
          /\ SubSeq(collected', 1, k - 1) = collected
          /\ collected'[k] \in {ev'.line, script_args[k].default}
          /\ pc' # "exit" =>
               /\ (pc' = "run") = (k = Len(script_args))
               /\ (pc' = "arg") = (k < Len(script_args))

C16_OnePromptPerArgLine == [][C16_Step]_vars

C16_Witness ==
  /\ pc = "run" /\ target = Join(DirPath(2), NameA)
  /\ Len(script_args) = 2 /\ script_args[1].name = script_args[2].name
  /\ collected = <<(<<"5">>), (<<"7">>)>>

(* the list a render of menu_path must show, stated without the sort *)
FreshList(f, menu_path) ==
  [i \in 1..Cardinality(ShownNames(f, menu_path)) |->
     CHOOSE n \in ShownNames(f, menu_path) : Rank(f, menu_path, n) = i]

(* C17: every render shows the visible children of the directory as it is at
   that render, whatever list the level held before; a child added, removed
   or changed since the previous render shows in the next one. *)
C17_FreshEveryRender ==
  (pc = "prompt" /\ ev.kind = "render") =>
     Top(stack).items = FreshList(fs, Top(stack).path)

C17_Witness ==
  /\ pc = "prompt" /\ ev.kind = "render" /\ Depth = 1
  /\ ev.listed = <<NameB, NameA>> /\ Top(stack).items = <<NameA, NameAB>>

(* C18: when the directory changes between a render and the selection, index
   n still dispatches the name shown at position n of that render; only the
   kind of that entry is probed again, so the branch taken follows the kind
   at dispatch. *)
C18_Step ==
  (pc = "prompt" /\ changed /\ ev'.kind = "line" /\ IsNumber(ev'.line)
     /\ IntValue(Strip(ev'.line)) \in 1..Len(Top(stack).items) /\ pc' # "exit") =>
    LET shown == Join(Top(stack).path, Top(stack).items[IntValue(Strip(ev'.line))])
    IN IF IsDir(fs, shown)
         THEN /\ pc' = "enum" /\ Len(stack') = Len(stack) + 1
              /\ Top(stack').path = shown
         ELSE /\ pc' \in {"arg", "run", "ack"} /\ stack' = stack
              /\ target' = shown

C18_ShownNameDispatched == [][C18_Step]_vars

C18_Witness ==
  /\ changed /\ pc = "arg" /\ ev.kind = "line" /\ ev.at = "prompt"
  /\ ev.line = <<"2">> /\ ev.listed = <<NameB, NameA, NameAB>>
  /\ target = Join(Root, NameA) /\ Lookup(fs, Join(Root, NameB)).kind = "absent"

(* C19: an interrupt while an argument prompt or the acknowledgment prompt
   blocks ends the program with the farewell and exit code 0 at any depth; at
   an argument prompt no child is launched for the selection. *)
C19_Step ==
  (pc \in {"arg", "ack"} /\ ev'.kind = "interrupt") =>
     /\ pc' = "exit" /\ exitCode' = 0 /\ msg' = "goodbye" /\ stack' = <<>>
     /\ pc = "arg" => runs = 0 /\ runs' = 0 /\ command' = <<>>

C19_InterruptInPromptsExits == [][C19_Step]_vars

C19_Witness ==
  /\ pc = "exit" /\ ev.kind = "interrupt" /\ ev.at = "arg" /\ ev.depth = 2
  /\ exitCode = 0 /\ msg = "goodbye"

====
